---- MODULE Spec2Model ----
(***************************************************************************)
(* Model of main.py: a command-line script that checks the environment,    *)
(* builds a langchain agent, calls chain.run(prompt) once, maps a raised   *)
(* exception to a message, and prints 'response' and 'error_msg'.          *)
(*                                                                         *)
(* The model covers invocations with exactly one positional argument (the  *)
(* prompt), so that parser.parse_args() succeeds.  The script is executed  *)
(* MaxRuns times in a row by the same caller, with the same environment,   *)
(* the same prompt and the same (mocked) agent, while the wall clock may   *)
(* advance.                                                                *)
(*                                                                         *)
(* A Python string is a sequence of text fragments; concatenation is \o    *)
(* and "s contains t" is Contains(s, t).                                   *)
(***************************************************************************)
EXTENDS Integers, Sequences, FiniteSets, TLC

VARIABLES
    environ,    \* os.environ: the set of variable names that are set
    prompt,     \* args.prompt
    agent,      \* what chain.run(prompt) does: returns a string or raises
    clock,      \* wall clock read by datetime.datetime.now()
    run,        \* number of the current invocation of the script
    pc,         \* position of the current invocation
    llm,        \* the OpenAI client has been constructed
    tools,      \* load_tools has returned
    memory,     \* the ConversationBufferMemory has been constructed
    chain,      \* initialize_agent has returned
    calls,      \* number of chain.run invocations in the current invocation
    handler,    \* the except clause that handled the exception, or "none"
    response,   \* run_chain's response
    error_msg,  \* run_chain's error_msg
    raised,     \* the exception propagating out of the script, or NoExc
    stdout,     \* what the current invocation has printed, one entry per print
    finished    \* the earlier invocations: how each ended and what it printed

vars == <<environ, prompt, agent, clock, run, pc, llm, tools, memory, chain,
          calls, handler, response, error_msg, raised, stdout, finished>>

----------------------------------------------------------------------------
\* Bounds of the model

MaxRuns == 2

MaxClock == 2

----------------------------------------------------------------------------
\* Strings

BUG_FOUND_MSG == <<"Congratulations, you've found a bug in this application", "!">>

AUTH_ERR_MSG == <<"Please paste your OpenAI key from openai.com to use this application", ". ">>

Contains(s, sub) ==
    \E i \in 0..(Len(s) - Len(sub)) : SubSeq(s, i + 1, i + Len(sub)) = sub

StartsWith(s, p) ==
    /\ Len(p) <= Len(s)
    /\ SubSeq(s, 1, Len(p)) = p

\* str(datetime.datetime.now()) at clock reading t
TimeStr(t) == <<"2023-02-27 12:00:00.", ToString(t)>>

\* print(label, value): the two arguments separated by one space
PrintLine(label, value) == <<label, " ">> \o value

----------------------------------------------------------------------------
\* Exceptions: the classes an exception object is an instance of, and str(e)

Classified == {"AuthenticationError", "RateLimitError", "ValueError", "InvalidRequestError"}

NoExc == [bases |-> {}, text |-> <<>>]

\* str(e) of the exceptions the agent raises.  langchain puts the model's
\* output into the text of its ValueError, so the text is free-form: it may be
\* empty and it may repeat any wording, this script's own messages included.
Texts == { <<>>, <<"quota exceeded">>, BUG_FOUND_MSG, AUTH_ERR_MSG }

\* Exception subclasses (any combination of the four classes the script names,
\* by multiple inheritance), and the BaseException subclasses that are not
\* Exception subclasses (KeyboardInterrupt, SystemExit, GeneratorExit).
Exceptions ==
    { [bases |-> b \cup {"Exception", "BaseException"}, text |-> t] :
          b \in SUBSET Classified, t \in Texts }
    \cup { [bases |-> {"BaseException"}, text |-> t] : t \in {<<>>} }

\* The strings the agent returns
Replies == { <<>>, <<"42">>, <<"a poem", " about ping pong balls">> }

Prompts == { <<"How many ping pong balls fit into a jumbo jet">>,
             <<"Write a poem about ping pong balls and jumbo jets">> }

Agents ==
    { [raises |-> FALSE, value |-> v, exc |-> NoExc] : v \in Replies }
    \cup { [raises |-> TRUE, value |-> <<>>, exc |-> e] : e \in Exceptions }

\* raise Exception("please set OPENAI_API_KEY environment variable")
MissingKeyError ==
    [bases |-> {"Exception", "BaseException"},
     text |-> <<"please set OPENAI_API_KEY environment variable">>]

\* What the framework raises when a constructor or load_tools fails
InitErrors ==
    { [bases |-> {c, "Exception", "BaseException"}, text |-> <<"init failed">>] :
          c \in {"ValueError", "AuthenticationError", "ImportError"} }

----------------------------------------------------------------------------
\* init_langchain_llm: the credential check

\* Mutant: the credential check is left out
KeyMissingUnchecked == FALSE

KeyMissing == "OPENAI_API_KEY" \notin environ

\* load_tools(["wolfram-alpha"]) builds the Wolfram Alpha wrapper, which looks
\* its application id up in the environment and raises when it is not there.
WolframMissing == "WOLFRAM_ALPHA_APPID" \notin environ

----------------------------------------------------------------------------
\* run_chain: the try statement

\* Mutant: only the first fragment of the agent's answer is kept
ResponseOfTruncated(a) == IF a.value = <<>> THEN <<>> ELSE <<Head(a.value)>>

\* response = chain.run(prompt), when the call returns
ResponseOf(a) == a.value

\* Mutant: the ValueError clause is written before the RateLimitError clause
HandlerValueFirst(e) ==
    IF "AuthenticationError" \in e.bases THEN "auth"
    ELSE IF "ValueError" \in e.bases THEN "value"
    ELSE IF "RateLimitError" \in e.bases THEN "rate"
    ELSE IF "InvalidRequestError" \in e.bases THEN "invalid"
    ELSE IF "Exception" \in e.bases THEN "other"
    ELSE "none"

\* The except clauses, tried in the order written; "none" when no clause
\* matches and the exception leaves run_chain.
Handler(e) ==
    IF "AuthenticationError" \in e.bases THEN "auth"
    ELSE IF "RateLimitError" \in e.bases THEN "rate"
    ELSE IF "ValueError" \in e.bases THEN "value"
    ELSE IF "InvalidRequestError" \in e.bases THEN "invalid"
    ELSE IF "Exception" \in e.bases THEN "other"
    ELSE "none"

\* Mutant: the timestamp is left out of the authentication message
MsgAuthNoTimestamp(e) == AUTH_ERR_MSG \o <<". ">> \o e.text

MsgAuth(e) == AUTH_ERR_MSG \o TimeStr(clock) \o <<". ">> \o e.text

\* Mutant: the rate-limit message is the exception's text alone
MsgRateLimitBare(e) == e.text

MsgRateLimit(e) == <<"\n\n", "RateLimitError", ": ">> \o e.text

\* Mutant: the ValueError message is stamped with the time, like the
\* authentication message
MsgValueStamped(e) == <<"\n\n", "ValueError", ": ">> \o TimeStr(clock) \o e.text

MsgValue(e) == <<"\n\n", "ValueError", ": ">> \o e.text

MsgInvalidRequest(e) == <<"\n\n", "InvalidRequestError", ": ">> \o e.text

\* Mutant: the catch-all message leaves out str(e)
MsgOtherNoText(e) == <<"\n\n">> \o BUG_FOUND_MSG \o <<":\n\n">>

MsgOther(e) == <<"\n\n">> \o BUG_FOUND_MSG \o <<":\n\n">> \o e.text

ErrorMsg(h, e) ==
    CASE h = "auth" -> MsgAuth(e)
      [] h = "rate" -> MsgRateLimit(e)
      [] h = "value" -> MsgValue(e)
      [] h = "invalid" -> MsgInvalidRequest(e)
      [] h = "other" -> MsgOther(e)

\* What the except clause h prints itself: only the AuthenticationError
\* clause has a print statement.
HandlerPrints(h, msg) ==
    IF h = "auth" THEN <<PrintLine("error_msg", msg)>> ELSE <<>>

\* Mutant: the RateLimitError clause calls chain.run again
ChainRunCallsRetry(h) == IF h = "rate" THEN 2 ELSE 1

\* The number of times chain.run is called by one run_chain: once, in the try
\* block; no except clause calls it again
ChainRunCalls(h) == 1

----------------------------------------------------------------------------
\* The script, statement by statement

Init ==
    /\ environ \in SUBSET {"OPENAI_API_KEY", "WOLFRAM_ALPHA_APPID"}
    /\ prompt \in Prompts
    /\ agent \in Agents
    /\ clock = 0
    /\ run = 1
    /\ pc = "init_langchain_llm"
    /\ llm = FALSE
    /\ tools = FALSE
    /\ memory = FALSE
    /\ chain = FALSE
    /\ calls = 0
    /\ handler = "none"
    /\ response = <<>>
    /\ error_msg = <<>>
    /\ raised = NoExc
    /\ stdout = <<>>
    /\ finished = <<>>

\* Mutant: init_langchain() is called inside the try statement, so that its
\* exceptions are classified too
InitRaiseCaught(e) ==
    /\ raised' = raised
    /\ pc' = "print_response"
    /\ handler' = Handler(e)
    /\ error_msg' = ErrorMsg(Handler(e), e)
    /\ UNCHANGED <<calls, response, stdout>>

\* An exception raised while init_langchain() runs: the call at module level
\* is in no try statement, so the exception ends the script.
InitRaise(e) ==
    /\ raised' = e
    /\ pc' = "aborted"
    /\ UNCHANGED <<calls, handler, response, error_msg, stdout>>

\* init_langchain_llm(): the credential check, then the OpenAI client
InitLangchainLlm ==
    /\ pc = "init_langchain_llm"
    /\ IF KeyMissing
          THEN /\ InitRaise(MissingKeyError)
               /\ UNCHANGED llm
          ELSE \/ /\ llm' = TRUE
                  /\ pc' = "load_tools"
                  /\ UNCHANGED <<calls, handler, response, error_msg, stdout, raised>>
               \/ /\ \E e \in InitErrors : InitRaise(e)
                  /\ UNCHANGED llm
    /\ UNCHANGED <<environ, prompt, agent, clock, run, tools, memory, chain, finished>>

\* tools = load_tools([WOLFRAM_LANGCHAIN_TOOL_NAME], llm=llm)
LoadTools ==
    /\ pc = "load_tools"
    /\ \/ /\ ~WolframMissing
          /\ tools' = TRUE
          /\ pc' = "memory"
          /\ UNCHANGED <<calls, handler, response, error_msg, stdout, raised>>
       \/ /\ \E e \in InitErrors : InitRaise(e)
          /\ UNCHANGED tools
    /\ UNCHANGED <<environ, prompt, agent, clock, run, llm, memory, chain, finished>>

\* memory = ConversationBufferMemory(memory_key="chat_history")
ConstructMemory ==
    /\ pc = "memory"
    /\ \/ /\ memory' = TRUE
          /\ pc' = "initialize_agent"
          /\ UNCHANGED <<calls, handler, response, error_msg, stdout, raised>>
       \/ /\ \E e \in InitErrors : InitRaise(e)
          /\ UNCHANGED memory
    /\ UNCHANGED <<environ, prompt, agent, clock, run, llm, tools, chain, finished>>

\* chain = initialize_agent(tools, llm, ...); return chain; prompt = args.prompt
InitializeAgent ==
    /\ pc = "initialize_agent"
    /\ \/ /\ chain' = TRUE
          /\ pc' = "run_chain"
          /\ UNCHANGED <<calls, handler, response, error_msg, stdout, raised>>
       \/ /\ \E e \in InitErrors : InitRaise(e)
          /\ UNCHANGED chain
    /\ UNCHANGED <<environ, prompt, agent, clock, run, llm, tools, memory, finished>>

\* response, error_msg = run_chain(chain, prompt)
RunChain ==
    /\ pc = "run_chain"
    /\ LET h == IF agent.raises THEN Handler(agent.exc) ELSE "none"
           msg == IF h = "none" THEN <<>> ELSE ErrorMsg(h, agent.exc)
       IN  /\ calls' = calls + ChainRunCalls(h)
           /\ handler' = h
           /\ response' = IF agent.raises THEN <<>> ELSE ResponseOf(agent)
           /\ error_msg' = msg
           /\ stdout' = stdout \o HandlerPrints(h, msg)
           /\ IF agent.raises /\ h = "none"
                 THEN /\ raised' = agent.exc
                      /\ pc' = "aborted"
                 ELSE /\ raised' = raised
                      /\ pc' = "print_response"
    /\ UNCHANGED <<environ, prompt, agent, clock, run, llm, tools, memory, chain, finished>>

\* print("response", response)
PrintResponse ==
    /\ pc = "print_response"
    /\ stdout' = Append(stdout, PrintLine("response", response))
    /\ pc' = "print_error_msg"
    /\ UNCHANGED <<environ, prompt, agent, clock, run, llm, tools, memory, chain,
                   calls, handler, response, error_msg, raised, finished>>

\* print("error_msg", error_msg), the last statement of the script
PrintErrorMsg ==
    /\ pc = "print_error_msg"
    /\ stdout' = Append(stdout, PrintLine("error_msg", error_msg))
    /\ pc' = "done"
    /\ UNCHANGED <<environ, prompt, agent, clock, run, llm, tools, memory, chain,
                   calls, handler, response, error_msg, raised, finished>>

\* The process has ended and the script is invoked again: a new interpreter,
\* in which every module-level name is fresh.
NextRun ==
    /\ pc \in {"done", "aborted"}
    /\ run < MaxRuns
    /\ finished' = Append(finished, [ended |-> pc, calls |-> calls, stdout |-> stdout])
    /\ run' = run + 1
    /\ pc' = "init_langchain_llm"
    /\ llm' = FALSE
    /\ tools' = FALSE
    /\ memory' = FALSE
    /\ chain' = FALSE
    /\ calls' = 0
    /\ handler' = "none"
    /\ response' = <<>>
    /\ error_msg' = <<>>
    /\ raised' = NoExc
    /\ stdout' = <<>>
    /\ UNCHANGED <<environ, prompt, agent, clock>>

\* Time passes
Tick ==
    /\ clock < MaxClock
    /\ clock' = clock + 1
    /\ UNCHANGED <<environ, prompt, agent, run, pc, llm, tools, memory, chain,
                   calls, handler, response, error_msg, raised, stdout, finished>>

Next ==
    \/ InitLangchainLlm
    \/ LoadTools
    \/ ConstructMemory
    \/ InitializeAgent
    \/ RunChain
    \/ PrintResponse
    \/ PrintErrorMsg
    \/ NextRun
    \/ Tick

Spec == Init /\ [][Next]_vars

----------------------------------------------------------------------------
\* Properties

\* run_chain has returned to the module level of the current invocation
Returned == pc \in {"print_response", "print_error_msg", "done"}

\* chain.run has been called and has raised
AgentRaised == agent.raises /\ calls >= 1

\* the exception the agent raises is an instance of Exception
ExceptionSubclass == "Exception" \in agent.exc.bases

\* C1: where OPENAI_API_KEY is not in the environment, the OpenAI client, the
\* tools, the memory and the agent are never constructed, chain.run is never
\* called and nothing is printed, in this invocation and in the earlier ones;
\* and once init_langchain_llm has acted the script has ended with the
\* "please set OPENAI_API_KEY" exception.
C1_MissingKeyFailsFast ==
    "OPENAI_API_KEY" \notin environ =>
        /\ ~llm /\ ~tools /\ ~memory /\ ~chain
        /\ calls = 0
        /\ stdout = <<>>
        /\ \A i \in DOMAIN finished :
              /\ finished[i].calls = 0
              /\ finished[i].stdout = <<>>
              /\ finished[i].ended = "aborted"
        /\ pc \in {"init_langchain_llm", "aborted"}
        /\ pc = "aborted" => raised = MissingKeyError

C1_Witness ==
    /\ "OPENAI_API_KEY" \notin environ
    /\ pc = "aborted"
    /\ raised = MissingKeyError

\* C2 (as claimed): when the script has run to its end, after a reply or any
\* caught error, its output is exactly the 'response' line followed by the
\* 'error_msg' line, each printed once.
C2_ExactlyTwoLines ==
    pc = "done" =>
        stdout = << PrintLine("response", response), PrintLine("error_msg", error_msg) >>

\* C3: when chain.run returns, run_chain returns the agent's string unchanged
\* as response, and the empty string as error_msg.
C3_SuccessReturnsReply ==
    (Returned /\ ~agent.raises) =>
        /\ response = agent.value
        /\ error_msg = <<>>

C3_Witness ==
    /\ Returned
    /\ ~agent.raises
    /\ response = <<"a poem", " about ping pong balls">>

\* C4 (as claimed): once chain.run has raised, whatever the exception,
\* run_chain has returned the empty response and a non-empty error_msg; and
\* response is non-empty only if error_msg is empty.
C4_AnyExceptionReturnsMessage ==
    /\ AgentRaised => (Returned /\ response = <<>> /\ error_msg # <<>>)
    /\ response # <<>> => error_msg = <<>>

\* C4 (amended): once chain.run has raised an instance of Exception, run_chain
\* has returned the empty response and a non-empty error_msg; an exception
\* that is no instance of Exception leaves run_chain, which returns nothing;
\* and response is non-empty only if error_msg is empty.
C4_ExceptionReturnsMessage ==
    /\ (AgentRaised /\ ExceptionSubclass) =>
          (Returned /\ response = <<>> /\ error_msg # <<>>)
    /\ (AgentRaised /\ ~ExceptionSubclass) =>
          (pc = "aborted" /\ raised = agent.exc /\ response = <<>> /\ error_msg = <<>>)
    /\ response # <<>> => error_msg = <<>>

C4_Witness ==
    /\ AgentRaised
    /\ ExceptionSubclass
    /\ Returned
    /\ agent.exc.text = <<>>
    /\ error_msg # <<>>

\* C5 (as claimed): once chain.run has been called, it has been called exactly
\* once, no exception is propagating, run_chain has returned, and the script
\* goes on to print both lines and end normally.
C5_EveryExceptionCaught ==
    calls >= 1 =>
        /\ calls = 1
        /\ raised = NoExc
        /\ Returned

\* C5 (amended): once chain.run has been called and has returned or raised an
\* instance of Exception, it has been called exactly once, no exception is
\* propagating, run_chain has returned, the next print statement can run, and
\* at the end of the script the last two things printed are the 'response'
\* line and the 'error_msg' line.
C5_ExceptionsCaught ==
    (calls >= 1 /\ (agent.raises => ExceptionSubclass)) =>
        /\ calls = 1
        /\ raised = NoExc
        /\ Returned
        /\ pc = "print_response" => ENABLED PrintResponse
        /\ pc = "print_error_msg" => ENABLED PrintErrorMsg
        /\ pc = "done" =>
              /\ Len(stdout) >= 2
              /\ stdout[Len(stdout) - 1] = PrintLine("response", response)
              /\ stdout[Len(stdout)] = PrintLine("error_msg", error_msg)

C5_Witness ==
    /\ pc = "done"
    /\ agent.raises
    /\ handler = "rate"
    /\ calls = 1

\* C6: when chain.run raises an AuthenticationError, the error_msg run_chain
\* builds is AUTH_ERR_MSG, then the time at that moment, then '. ', then the
\* exception's text.
C6_AuthMessage ==
    [][ (pc = "run_chain" /\ pc' # "run_chain"
            /\ agent.raises /\ "AuthenticationError" \in agent.exc.bases)
        => /\ StartsWith(error_msg', AUTH_ERR_MSG)
           /\ error_msg' = AUTH_ERR_MSG \o TimeStr(clock) \o <<". ">> \o agent.exc.text
      ]_vars

C6_Witness ==
    /\ pc = "print_response"
    /\ agent.raises
    /\ "AuthenticationError" \in agent.exc.bases
    /\ clock > 0
    /\ Contains(error_msg, TimeStr(clock))

\* The category of an exception under first-match dispatch in the order
\* AuthenticationError, RateLimitError, ValueError, InvalidRequestError,
\* any other exception
Category(e) ==
    CASE "AuthenticationError" \in e.bases -> "auth"
      [] "RateLimitError" \in e.bases
           /\ "AuthenticationError" \notin e.bases -> "rate"
      [] "ValueError" \in e.bases
           /\ e.bases \cap {"AuthenticationError", "RateLimitError"} = {} -> "value"
      [] "InvalidRequestError" \in e.bases
           /\ e.bases \cap {"AuthenticationError", "RateLimitError", "ValueError"} = {}
           -> "invalid"
      [] e.bases \cap Classified = {} -> "other"

Label(c) ==
    CASE c = "rate" -> <<"RateLimitError">>
      [] c = "value" -> <<"ValueError">>
      [] c = "invalid" -> <<"InvalidRequestError">>

\* C7 (as claimed, for the errors run_chain turns into a message): once
\* run_chain has returned after chain.run raised, the exception has been
\* handled by the clause of its category; a rate-limit, ValueError or
\* InvalidRequestError message contains its category's label and contains
\* neither BUG_FOUND_MSG nor AUTH_ERR_MSG.
C7_ClassifiedByLabel ==
    (AgentRaised /\ Returned) =>
        /\ handler = Category(agent.exc)
        /\ handler \in {"rate", "value", "invalid"} =>
              /\ Contains(error_msg, Label(handler))
              /\ ~Contains(error_msg, BUG_FOUND_MSG)
              /\ ~Contains(error_msg, AUTH_ERR_MSG)

\* C7 (amended): once chain.run has raised an instance of Exception, the
\* exception has been handled by the clause of its category; a rate-limit,
\* ValueError or InvalidRequestError message is a prefix holding its
\* category's label followed by the exception's text; the prefix contains
\* neither BUG_FOUND_MSG nor AUTH_ERR_MSG, and the message contains one of
\* them only where the exception's own text does.
C7_ClassifiedByPrefix ==
    (AgentRaised /\ ExceptionSubclass) =>
        /\ handler = Category(agent.exc)
        /\ handler \in {"rate", "value", "invalid"} =>
              LET prefix == <<"\n\n">> \o Label(handler) \o <<": ">>
              IN  /\ error_msg = prefix \o agent.exc.text
                  /\ Contains(error_msg, Label(handler))
                  /\ ~Contains(prefix, BUG_FOUND_MSG)
                  /\ ~Contains(prefix, AUTH_ERR_MSG)
                  /\ Contains(error_msg, BUG_FOUND_MSG)
                        => Contains(agent.exc.text, BUG_FOUND_MSG)
                  /\ Contains(error_msg, AUTH_ERR_MSG)
                        => Contains(agent.exc.text, AUTH_ERR_MSG)

C7_Witness ==
    /\ Returned
    /\ agent.raises
    /\ {"RateLimitError", "ValueError"} \subseteq agent.exc.bases
    /\ handler = "rate"
    /\ Contains(error_msg, BUG_FOUND_MSG)

Outputs ==
    LET done == SelectSeq(finished, LAMBDA f : f.ended = "done")
        earlier == [i \in DOMAIN done |-> done[i].stdout]
    IN  IF pc = "done" THEN Append(earlier, stdout) ELSE earlier

\* C9 (as claimed): any two invocations that ran to their end, with the same
\* agent and the same prompt, printed the same.
C9_SameOutput ==
    \A i, j \in DOMAIN Outputs : Outputs[i] = Outputs[j]

\* C9 (amended): any two invocations that ran to their end, with the same
\* agent and the same prompt, printed the same, unless the agent raises an
\* AuthenticationError; then they printed the same number of lines and the
\* same 'response' line, and differ at most in the 'error_msg' lines, which
\* carry the time.
C9_SameOutputButTimestamp ==
    \A i, j \in DOMAIN Outputs :
        IF agent.raises /\ "AuthenticationError" \in agent.exc.bases
          THEN /\ Len(Outputs[i]) = Len(Outputs[j])
               /\ \A k \in DOMAIN Outputs[i] :
                     \/ Outputs[i][k] = Outputs[j][k]
                     \/ /\ StartsWith(Outputs[i][k], PrintLine("error_msg", AUTH_ERR_MSG))
                        /\ StartsWith(Outputs[j][k], PrintLine("error_msg", AUTH_ERR_MSG))
          ELSE Outputs[i] = Outputs[j]

C9_Witness ==
    /\ Len(Outputs) >= 2
    /\ pc = "done"
    /\ clock > 0
    /\ agent.raises
    /\ handler = "value"
    /\ Outputs[1] = Outputs[2]

\* C10: an exception raised while init_langchain() runs is not classified:
\* the script ends with it, chain.run has not been called and nothing has
\* been printed; the print statements are reached only through chain.run;
\* and without WOLFRAM_ALPHA_APPID the script never gets past load_tools.
C10_InitErrorsNotClassified ==
    /\ (pc = "aborted" /\ calls = 0) =>
          /\ raised # NoExc
          /\ ~chain
          /\ handler = "none"
          /\ response = <<>>
          /\ error_msg = <<>>
          /\ stdout = <<>>
    /\ Returned => (chain /\ calls = 1)
    /\ ~chain => (calls = 0 /\ error_msg = <<>> /\ stdout = <<>>)
    /\ "WOLFRAM_ALPHA_APPID" \notin environ =>
          /\ pc \in {"init_langchain_llm", "load_tools", "aborted"}
          /\ ~tools /\ ~chain

C10_Witness ==
    /\ "OPENAI_API_KEY" \in environ
    /\ "WOLFRAM_ALPHA_APPID" \notin environ
    /\ llm
    /\ pc = "aborted"
    /\ "ValueError" \in raised.bases
    /\ stdout = <<>>

====
